---- MODULE Spec2Model ----
(***************************************************************************)
(* Model of alfa::Topic (alfa-cpp/include/topic.h): loading one CSV topic  *)
(* file, header normalisation, column-width tracking and printing.         *)
(*                                                                         *)
(* Strings are TLA+ strings (Len, \o and SubSeq act on them as on          *)
(* std::string).  A line of the file is represented by the token vector    *)
(* Commons::Tokenize returns for it.  C++ vectors are 0-based, the         *)
(* sequences here are 1-based: C++ index i is index i + 1 here.            *)
(***************************************************************************)
EXTENDS Integers, Sequences, FiniteSets, TLC

VARIABLES
    topic,        \* the Topic object: a record of its data members
    pc,           \* position inside ReadFromFile: "idle" when no call runs
    filename,     \* ReadFromFile's parameter
    before,       \* the flags the topic held when ReadFromFile was called
    topic_name,   \* ReadFromFile's local copy of Name (line 105)
    ifs,          \* the input stream of ReadFromFile: open flag, lines, position
    line_number,  \* ReadFromFile's local data-row counter (line 135)
    cerr,         \* error messages of the most recent ReadFromFile
    ret,          \* what the most recent ReadFromFile returned ("none" before)
    cout,         \* lines written by the most recent Print / PrintHeader
    call          \* the most recent Print / PrintHeader call and its result
                  \* (Topic_Print stands for Topic::Print)

vars ==
    <<topic, pc, filename, before, topic_name, ifs, line_number, cerr, ret,
      cout, call>>

-----------------------------------------------------------------------------
(* Bounds of the model *)

MaxRows == 2
MaxTokens == 5

(* Program constants *)

IntMax == 2147483647

CSVFieldsPrefix == "field."
FaultTopicPrefix == "failure_status"
TimeLabel == "%time"

hdr_ind == "Index"
hdr_datetime == "Date/Time Stamp"
hdr_seq == "SeqID"
hdr_stamp == "Time Stamp"
hdr_frid == "Frame"

DateTimeStrLen == 23

-----------------------------------------------------------------------------
(* std::string and stream helpers *)

Max(a, b) == IF a >= b THEN a ELSE b
Min(a, b) == IF a <= b THEN a ELSE b

\* std::string::substr(pos, n), pos 0-based, pos <= size
Substr(s, pos, n) == SubSeq(s, pos + 1, Min(Len(s), pos + n))

\* std::string::substr(pos), pos 0-based, pos <= size
SubstrFrom(s, pos) == SubSeq(s, pos + 1, Len(s))

RECURSIVE Fill(_, _)
\* std::string(n, c)
Fill(n, c) == IF n <= 0 THEN "" ELSE c \o Fill(n - 1, c)

\* operator<< of a string after std::setw(w): right-aligned, never truncated
SetW(w, s) == Fill(w - Len(s), " ") \o s

-----------------------------------------------------------------------------
(* Inputs: topic names, file names, file contents *)

TopicNames ==
    {"N/A", "failure_status", "failure_status-engines", "mavros-failure_status"}

MissingFile == "missing.csv"
FileNames == {MissingFile, "topic.csv"}

Short == "7"
Long == "12345678901"

Headers ==
    { <<>>,
      <<"%time", "field.speed">>,
      <<"%time", "field.header.seq", "field.header.stamp",
        "field.header.frame_id", "field.x">>,
      <<"field.header.stamp", "y", "field.x">>,
      <<"field.x", "field.x", "field.">> }

\* the row of k tokens: long and short tokens alternate, and rows of
\* different lengths put the long token in different columns
Row(k) == [i \in 1..k |-> IF (i + k) % 2 = 0 THEN Long ELSE Short]
Rows == {Row(k) : k \in 0..MaxTokens}

RECURSIVE RowSeqs(_)
RowSeqs(n) ==
    IF n = 0 THEN {<<>>}
    ELSE LET shorter == RowSeqs(n - 1)
         IN  shorter \cup {Append(rs, r) : rs \in {s \in shorter : Len(s) = n - 1},
                                             r \in Rows}

\* a file is its sequence of lines; the empty file has no line at all
Contents ==
    {<<>>} \cup {<<h>> \o rs : h \in Headers, rs \in RowSeqs(MaxRows)}

NoStream == [is_open |-> FALSE, lines |-> <<>>, pos |-> 0]
NoFlags == [is_initialized |-> FALSE, is_fault_topic |-> FALSE]

DefaultSeparator == " | "
Separators == {DefaultSeparator, ","}

-----------------------------------------------------------------------------
(* The Topic object *)

Constructed(n) ==
    [Name |-> n, FileName |-> "", FieldLabels |-> <<>>, Messages |-> <<>>,
     is_initialized |-> FALSE, is_fault_topic |-> FALSE,
     len_seqid |-> 0, len_stamp |-> 0, len_frameid |-> 0, len_fields |-> <<>>,
     orig_field_labels |-> <<>>, has_header |-> FALSE]

ClearKeepsMessages(t) ==
    [t EXCEPT !.Name = "", !.FileName = "", !.FieldLabels = <<>>,
              !.is_initialized = FALSE, !.is_fault_topic = FALSE,
              !.len_seqid = 0, !.len_stamp = 0, !.len_frameid = 0,
              !.len_fields = <<>>, !.orig_field_labels = <<>>,
              !.has_header = FALSE]

ClearKeepsFault(t) ==
    [t EXCEPT !.Name = "", !.FileName = "", !.FieldLabels = <<>>,
              !.Messages = <<>>, !.is_initialized = FALSE,
              !.len_seqid = 0, !.len_stamp = 0, !.len_frameid = 0,
              !.len_fields = <<>>, !.orig_field_labels = <<>>,
              !.has_header = FALSE]

ClearKeepsWidths(t) ==
    [t EXCEPT !.Name = "", !.FileName = "", !.FieldLabels = <<>>,
              !.Messages = <<>>, !.is_initialized = FALSE,
              !.is_fault_topic = FALSE, !.orig_field_labels = <<>>,
              !.has_header = FALSE]

ClearKeepsInitialized(t) ==
    [t EXCEPT !.Name = "", !.FileName = "", !.FieldLabels = <<>>,
              !.Messages = <<>>, !.is_fault_topic = FALSE,
              !.len_seqid = 0, !.len_stamp = 0, !.len_frameid = 0,
              !.len_fields = <<>>, !.orig_field_labels = <<>>,
              !.has_header = FALSE]

\* Topic::Clear
Clear(t) ==
    [t EXCEPT !.Name = "", !.FileName = "", !.FieldLabels = <<>>,
              !.Messages = <<>>, !.is_initialized = FALSE,
              !.is_fault_topic = FALSE,
              !.len_seqid = 0, !.len_stamp = 0, !.len_frameid = 0,
              !.len_fields = <<>>, !.orig_field_labels = <<>>,
              !.has_header = FALSE]

IsInitialized(t) == t.is_initialized
IsFaultTopic(t) == t.is_fault_topic
HasHeaderField(t) == t.has_header

-----------------------------------------------------------------------------
(* Message::TokensToMessage (message.h): the record of one row and the     *)
(* widths the row needs.  A column is the timestamp, one of the header     *)
(* triple, or a generic field, by its raw label.                           *)

IsSeqLabel(l) == l = CSVFieldsPrefix \o "header.seq"
IsStampLabel(l) == l = CSVFieldsPrefix \o "header.stamp"
IsFrameLabel(l) == l = CSVFieldsPrefix \o "header.frame_id"
IsGenericLabel(l) ==
    ~(l = TimeLabel \/ IsSeqLabel(l) \/ IsStampLabel(l) \/ IsFrameLabel(l))

RECURSIVE MessageScan(_, _, _, _)
MessageScan(tokens, labels, i, acc) ==
    IF i > Len(tokens) THEN acc
    ELSE LET l == labels[i]
             tok == tokens[i]
             nxt == IF l = TimeLabel
                      THEN [acc EXCEPT !.msg.DateTime = tok]
                    ELSE IF IsSeqLabel(l)
                      THEN [acc EXCEPT !.msg.SeqID = tok, !.l_seq = Len(tok)]
                    ELSE IF IsStampLabel(l)
                      THEN [acc EXCEPT !.msg.Stamp = tok, !.l_stamp = Len(tok)]
                    ELSE IF IsFrameLabel(l)
                      THEN [acc EXCEPT !.msg.FrameID = tok, !.l_frid = Len(tok)]
                    ELSE [acc EXCEPT
                            !.msg.FieldValues = Append(@, tok),
                            !.l_fields = Append(@, Len(tok))]
         IN  MessageScan(tokens, labels, i + 1, nxt)

MessageTokensToMessage(tokens, labels) ==
    MessageScan(tokens, labels, 1,
        [msg |-> [DateTime |-> "", SeqID |-> "", Stamp |-> "", FrameID |-> "",
                  FieldValues |-> <<>>],
         l_seq |-> 0, l_stamp |-> 0, l_frid |-> 0, l_fields |-> <<>>])

\* length of Message::DateTime.ToString()
DateTimeToStringLen(msg) == DateTimeStrLen

-----------------------------------------------------------------------------
(* Topic::TokensToMessage: fold one row's widths into the tracked widths *)

FoldFieldsAlwaysAppends(lens, l_fields, i) ==
    lens \o SubSeq(l_fields, i, Len(l_fields))

RECURSIVE FoldFields(_, _, _)
\* lines 291-297
FoldFields(lens, l_fields, i) ==
    IF i > Len(l_fields) THEN lens
    ELSE IF i = Len(lens) + 1
           THEN FoldFields(Append(lens, l_fields[i]), l_fields, i + 1)
           ELSE FoldFields([lens EXCEPT ![i] = Max(lens[i], l_fields[i])],
                           l_fields, i + 1)

TokensToMessageOverwrites(t, tokens) ==
    LET m == MessageTokensToMessage(tokens, t.orig_field_labels)
    IN  [t EXCEPT !.len_seqid = m.l_seq,
                  !.len_stamp = m.l_stamp,
                  !.len_frameid = m.l_frid,
                  !.len_fields = m.l_fields,
                  !.Messages = Append(@, m.msg)]

TokensToMessage(t, tokens) ==
    LET m == MessageTokensToMessage(tokens, t.orig_field_labels)
    IN  [t EXCEPT !.len_seqid = Max(@, m.l_seq),
                  !.len_stamp = Max(@, m.l_stamp),
                  !.len_frameid = Max(@, m.l_frid),
                  !.len_fields = FoldFields(@, m.l_fields, 1),
                  !.Messages = Append(@, m.msg)]

-----------------------------------------------------------------------------
(* Topic::ProcessHeader *)

StripPrefix(l) ==
    IF Substr(l, 0, Len(CSVFieldsPrefix)) = CSVFieldsPrefix
      THEN SubstrFrom(l, Len(CSVFieldsPrefix))
      ELSE l

RECURSIVE HeaderLoop(_, _, _)
\* lines 307-326: acc is the pair of FieldLabels and has_header
HeaderLoop(labels, i, acc) ==
    IF i > Len(labels) THEN acc
    ELSE LET l == labels[i]
         IN  IF l = TimeLabel
               THEN HeaderLoop(labels, i + 1, acc)
             ELSE IF IsSeqLabel(l) \/ IsStampLabel(l) \/ IsFrameLabel(l)
               THEN HeaderLoop(labels, i + 1, [acc EXCEPT !.has_header = TRUE])
             ELSE HeaderLoop(labels, i + 1,
                    [acc EXCEPT !.FieldLabels = Append(@, StripPrefix(l))])

RECURSIVE HeaderLoopKeepsTime(_, _, _)
HeaderLoopKeepsTime(labels, i, acc) ==
    IF i > Len(labels) THEN acc
    ELSE LET l == labels[i]
         IN  IF IsSeqLabel(l) \/ IsStampLabel(l) \/ IsFrameLabel(l)
               THEN HeaderLoopKeepsTime(labels, i + 1,
                      [acc EXCEPT !.has_header = TRUE])
             ELSE HeaderLoopKeepsTime(labels, i + 1,
                    [acc EXCEPT !.FieldLabels = Append(@, StripPrefix(l))])

RECURSIVE LabelWidths(_, _, _)
\* lines 332-336
LabelWidths(lens, labels, i) ==
    IF i > Len(labels) THEN lens
    ELSE IF Len(lens) < i THEN lens
    ELSE LabelWidths([lens EXCEPT ![i] = Max(lens[i], Len(labels[i]))],
                     labels, i + 1)

ProcessHeaderBody(t, h) ==
    [t EXCEPT !.FieldLabels = h.FieldLabels,
              !.has_header = h.has_header,
              !.len_seqid = Max(@, Len(hdr_seq)),
              !.len_stamp = Max(@, Len(hdr_stamp)),
              !.len_frameid = Max(@, Len(hdr_frid)),
              !.len_fields = LabelWidths(@, h.FieldLabels, 1)]

ProcessHeaderKeepsTime(t) ==
    ProcessHeaderBody(t, HeaderLoopKeepsTime(t.orig_field_labels, 1,
        [FieldLabels |-> t.FieldLabels, has_header |-> t.has_header]))

ProcessHeader(t) ==
    ProcessHeaderBody(t, HeaderLoop(t.orig_field_labels, 1,
        [FieldLabels |-> t.FieldLabels, has_header |-> t.has_header]))

-----------------------------------------------------------------------------
(* Topic::ReadFromFile, step by step *)

\* lines 105-112
Begin(t, f) ==
    [Clear(t) EXCEPT !.FileName = f, !.Name = t.Name]

\* line 115: the stream over the file, or a stream that is not open
OpenStream(f, content) ==
    IF f = MissingFile THEN NoStream
    ELSE [is_open |-> TRUE, lines |-> content, pos |-> 0]

\* std::getline succeeds
HasLine(s) == s.pos < Len(s.lines)
NextLine(s) == s.lines[s.pos + 1]
Advance(s) == [s EXCEPT !.pos = @ + 1]

\* line 127
ReadHeader(t, line) == [t EXCEPT !.orig_field_labels = line]

RECURSIVE Pad(_, _)
\* lines 144-145
Pad(tokens, n) == IF Len(tokens) < n THEN Pad(Append(tokens, ""), n) ELSE tokens

\* line 148
TooLong(t, tokens) == Len(tokens) > Len(t.orig_field_labels)

\* lines 162-166
ClassifyFault(t) ==
    IF Len(t.Name) >= Len(FaultTopicPrefix)
      THEN [t EXCEPT !.is_fault_topic =
                (Substr(t.Name, 0, Len(FaultTopicPrefix)) = FaultTopicPrefix)]
      ELSE t

\* lines 159-169
Finish(t) == [ClassifyFault(ProcessHeader(t)) EXCEPT !.is_initialized = TRUE]

\* Topic::ReadFromFile on a freshly constructed topic named n, as a function
\* of the file
RECURSIVE LoadRows(_, _, _)
LoadRows(t, lines, i) ==
    IF i > Len(lines) THEN t
    ELSE LET tokens == Pad(lines[i], Len(t.orig_field_labels))
         IN  IF TooLong(t, tokens) THEN t
             ELSE LoadRows(TokensToMessage(t, tokens), lines, i + 1)

FreshLoad(n, f, content) ==
    LET t0 == Begin(Constructed(n), f)
        s == OpenStream(f, content)
    IN  IF ~s.is_open \/ ~HasLine(s) THEN t0
        ELSE Finish(LoadRows(ReadHeader(t0, NextLine(s)), s.lines, 2))

-----------------------------------------------------------------------------
(* Topic::PrintHeader and Topic::Print *)

NoCall == [op |-> "none", n_start |-> 0, n_messages |-> 0, sep |-> "", value |-> 0]

RECURSIVE SumWidths(_, _, _)
\* lines 218-219
SumWidths(t, i, acc) ==
    IF i > Len(t.FieldLabels) THEN acc
    ELSE SumWidths(t, i + 1, acc + t.len_fields[i])

RECURSIVE FieldColumns(_, _, _)
\* lines 229-230
FieldColumns(t, sep, i) ==
    IF i > Len(t.FieldLabels) THEN ""
    ELSE sep \o SetW(t.len_fields[i], t.FieldLabels[i]) \o FieldColumns(t, sep, i + 1)

\* lines 223-233: the line written to std::cout, without its newline
HeaderLine(t, sep) ==
    LET len_datetime == DateTimeToStringLen(t.Messages[1])
    IN  sep \o hdr_ind \o sep \o SetW(len_datetime, hdr_datetime)
        \o (IF t.has_header
              THEN sep \o SetW(t.len_seqid, hdr_seq) \o sep
                   \o SetW(t.len_stamp, hdr_stamp) \o sep
                   \o SetW(t.len_frameid, hdr_frid)
              ELSE "")
        \o FieldColumns(t, sep, 1) \o sep

\* the value PrintHeader returns and the lines it writes
PrintHeaderResult(t, sep) ==
    IF Len(t.Messages) = 0 THEN [value |-> 0, out |-> <<>>]
    ELSE LET len_datetime == DateTimeToStringLen(t.Messages[1])
             total_len == SumWidths(t, 1,
                              Len(hdr_ind) + len_datetime + t.len_seqid
                              + t.len_stamp + t.len_frameid)
                          + (6 + Len(t.FieldLabels)) * Len(sep)
         IN  [value |-> total_len,
              out |-> <<[kind |-> "header", text |-> HeaderLine(t, sep)]>>]

\* n_start + n_messages (line 194) overflows int: both are >= 0 there
Overflows(a, b) == a > IntMax - b

\* the sum a + b wrapped to 32 bits, a + b - 2^32, when it overflows
WrappedSum(a, b) == (a - IntMax) + (b - IntMax) - 2

\* What i < n_start + n_messages evaluates to.  Signed overflow is undefined:
\* a build either wraps the sum ("wrap") or works as if no overflow happened
\* ("exact", i - n_start < n_messages); when the sum fits the two agree.
SumModes(a, b) == IF Overflows(a, b) THEN {"wrap", "exact"} ELSE {"exact"}
BelowSum(i, a, b, mode) ==
    IF mode = "wrap" /\ Overflows(a, b) THEN i < WrappedSum(a, b)
    ELSE i - a < b

RECURSIVE PrintLoop(_, _, _, _, _, _)
\* lines 194-200: the 0-based indices of the records written, in order
PrintLoop(i, n_start, n_messages, mode, size, acc) ==
    IF BelowSum(i, n_start, n_messages, mode) /\ i < size
      THEN PrintLoop(i + 1, n_start, n_messages, mode, size,
                     Append(acc, [kind |-> "record", index |-> i]))
      ELSE acc

StartIndices == {-1, 0, 1, IntMax}
Counts == {-1, 0, 1, IntMax}

-----------------------------------------------------------------------------
(* Actions *)

\* Topic::Topic with an empty filename.  With a filename the constructor goes
\* on to call ReadFromFile, which is ReadFromFile_Begin taken from this state.
Init ==
    /\ topic \in {Constructed(n) : n \in TopicNames}
    /\ pc = "idle"
    /\ filename = ""
    /\ before = NoFlags
    /\ topic_name = ""
    /\ ifs = NoStream
    /\ line_number = 0
    /\ cerr = <<>>
    /\ ret = "none"
    /\ cout = <<>>
    /\ call = NoCall

\* lines 105-112
ReadFromFile_Begin(f) ==
    /\ pc = "idle"
    /\ filename' = f
    /\ before' = [is_initialized |-> IsInitialized(topic),
                  is_fault_topic |-> IsFaultTopic(topic)]
    /\ topic_name' = topic.Name
    /\ topic' = Begin(topic, f)
    /\ pc' = "open"
    /\ ifs' = NoStream
    /\ line_number' = 0
    /\ cerr' = <<>>
    /\ ret' = "none"
    /\ cout' = <<>>
    /\ call' = NoCall

\* lines 115-122
ReadFromFile_Open(content) ==
    /\ pc = "open"
    /\ ifs' = OpenStream(filename, content)
    /\ IF ifs'.is_open
         THEN /\ pc' = "header"
              /\ UNCHANGED <<cerr, ret>>
         ELSE /\ cerr' = Append(cerr, [kind |-> "open", line |-> 0])
              /\ ret' = "false"
              /\ pc' = "idle"
    /\ UNCHANGED <<topic, filename, before, topic_name, line_number, cout, call>>

\* lines 125-135
ReadFromFile_Header ==
    /\ pc = "header"
    /\ IF HasLine(ifs)
         THEN /\ topic' = ReadHeader(topic, NextLine(ifs))
              /\ ifs' = Advance(ifs)
              /\ pc' = "rows"
              /\ UNCHANGED <<cerr, ret>>
         ELSE /\ cerr' = Append(cerr, [kind |-> "header", line |-> 0])
              /\ ret' = "false"
              /\ pc' = "idle"
              /\ UNCHANGED <<topic, ifs>>
    /\ line_number' = 0
    /\ UNCHANGED <<filename, before, topic_name, cout, call>>

ReadFromFile_RowSkipsLongRow ==
    /\ pc = "rows"
    /\ IF HasLine(ifs)
         THEN LET tokens == Pad(NextLine(ifs), Len(topic.orig_field_labels))
              IN  /\ line_number' = line_number + 1
                  /\ ifs' = Advance(ifs)
                  /\ pc' = "rows"
                  /\ IF TooLong(topic, tokens)
                       THEN /\ cerr' = Append(cerr, [kind |-> "row",
                                                     line |-> line_number'])
                            /\ UNCHANGED topic
                       ELSE /\ topic' = TokensToMessage(topic, tokens)
                            /\ UNCHANGED cerr
         ELSE /\ pc' = "finish"
              /\ UNCHANGED <<topic, ifs, line_number, cerr>>
    /\ UNCHANGED <<filename, before, topic_name, ret, cout, call>>

\* lines 136-156: one pass of the while loop
ReadFromFile_Row ==
    /\ pc = "rows"
    /\ IF HasLine(ifs)
         THEN LET tokens == Pad(NextLine(ifs), Len(topic.orig_field_labels))
              IN  /\ line_number' = line_number + 1
                  /\ ifs' = Advance(ifs)
                  /\ IF TooLong(topic, tokens)
                       THEN /\ cerr' = Append(cerr, [kind |-> "row",
                                                     line |-> line_number'])
                            /\ pc' = "finish"
                            /\ UNCHANGED topic
                       ELSE /\ topic' = TokensToMessage(topic, tokens)
                            /\ pc' = "rows"
                            /\ UNCHANGED cerr
         ELSE /\ pc' = "finish"
              /\ UNCHANGED <<topic, ifs, line_number, cerr>>
    /\ UNCHANGED <<filename, before, topic_name, ret, cout, call>>

\* lines 159-171
ReadFromFile_Finish ==
    /\ pc = "finish"
    /\ topic' = Finish(topic)
    /\ ret' = IF IsInitialized(topic') THEN "true" ELSE "false"
    /\ pc' = "idle"
    /\ UNCHANGED <<filename, before, topic_name, ifs, line_number, cerr, cout, call>>

\* Topic::Clear called by the owner of the topic
Topic_Clear ==
    /\ pc = "idle"
    /\ topic' = Clear(topic)
    /\ filename' = ""
    /\ before' = NoFlags
    /\ topic_name' = ""
    /\ ifs' = NoStream
    /\ line_number' = 0
    /\ cerr' = <<>>
    /\ ret' = "none"
    /\ cout' = <<>>
    /\ call' = NoCall
    /\ UNCHANGED pc

\* Topic::PrintHeader
PrintHeader(sep) ==
    /\ pc = "idle"
    /\ LET h == PrintHeaderResult(topic, sep)
       IN  /\ cout' = h.out
           /\ call' = [op |-> "PrintHeader", n_start |-> 0, n_messages |-> 0,
                       sep |-> sep, value |-> h.value]
    /\ UNCHANGED <<topic, pc, filename, before, topic_name, ifs, line_number,
                   cerr, ret>>

\* Topic::Print
Topic_Print(n_start, n_messages, sep) ==
    /\ pc = "idle"
    /\ IF n_start < 0
         THEN /\ cout' = <<>>
              /\ call' = [op |-> "Print", n_start |-> n_start,
                          n_messages |-> n_messages, sep |-> sep, value |-> 0]
         ELSE LET size == Len(topic.Messages)
                  n == IF n_messages < 0 THEN size ELSE n_messages
                  h == PrintHeaderResult(topic, sep)
                  rule == [kind |-> "rule", text |-> Fill(h.value, "-")]
              IN  \E mode \in SumModes(n_start, n) :
                     LET records == PrintLoop(n_start, n_start, n, mode, size, <<>>)
                     IN  /\ cout' = h.out \o <<rule>> \o records
                         /\ call' = [op |-> "Print", n_start |-> n_start,
                                     n_messages |-> n_messages, sep |-> sep,
                                     value |-> Len(records)]
    /\ UNCHANGED <<topic, pc, filename, before, topic_name, ifs, line_number,
                   cerr, ret>>

Next ==
    \/ \E f \in FileNames : ReadFromFile_Begin(f)
    \/ \E content \in Contents : ReadFromFile_Open(content)
    \/ ReadFromFile_Header
    \/ ReadFromFile_Row
    \/ ReadFromFile_Finish
    \/ Topic_Clear

Spec == Init /\ [][Next]_vars

PrintNext ==
    \/ Next
    \/ \E sep \in Separators : PrintHeader(sep)
    \/ \E n_start \in StartIndices, n_messages \in Counts :
          Topic_Print(n_start, n_messages, DefaultSeparator)

PrintSpec == Init /\ [][PrintNext]_vars

-----------------------------------------------------------------------------
(* Properties *)

\* a ReadFromFile has returned and no Clear came after it
Returned == pc = "idle" /\ ret # "none"
\* ... and it returned true
Completed == pc = "idle" /\ ret = "true"

HasError(k) == \E i \in 1..Len(cerr) : cerr[i].kind = k

StartsWith(s, p) ==
    /\ Len(s) >= Len(p)
    /\ \A i \in 1..Len(p) : SubSeq(s, i, i) = SubSeq(p, i, i)

\* one header line, then rows none of which is longer than the header
WellFormed(lines) ==
    /\ Len(lines) >= 1
    /\ \A i \in 2..Len(lines) : Len(lines[i]) <= Len(lines[1])

\* C1 as stated: after a ReadFromFile that returns true on a well-formed
\* file, there are as many field labels as tracked per-field widths.
C1_LabelsMatchWidths ==
    (Completed /\ WellFormed(ifs.lines))
        => Len(topic.FieldLabels) = Len(topic.len_fields)

\* C1 amended: after a ReadFromFile that returns true on a well-formed file,
\* there are as many field labels as tracked per-field widths provided the
\* file has at least one data row; with no data row no width is tracked.
C1_LabelsMatchWidthsGivenRows ==
    (Completed /\ WellFormed(ifs.lines))
        => Len(topic.len_fields) =
              IF Len(ifs.lines) >= 2 THEN Len(topic.FieldLabels) ELSE 0

C1_Witness ==
    /\ Completed
    /\ WellFormed(ifs.lines)
    /\ Len(ifs.lines) = 3
    /\ Len(topic.FieldLabels) >= 2
    /\ Len(topic.len_fields) = Len(topic.FieldLabels)

\* C2 as stated: IsInitialized() is true iff the most recent ReadFromFile
\* (no Clear after it) completed without any of the three errors (cannot
\* open, no header line, over-long row), and ReadFromFile returns that value.
C2_InitializedIffNoneOfThreeErrors ==
    /\ IsInitialized(topic) <=> (ret # "none" /\ cerr = <<>>)
    /\ ret # "none" => (ret = "true" <=> IsInitialized(topic))

\* C2 amended: IsInitialized() is true iff the most recent ReadFromFile (no
\* Clear after it) returned without one of the two errors that abort the
\* load (cannot open, no header line); an over-long row stops the reading
\* but the load completes and IsInitialized() is true; ReadFromFile returns
\* that same value.
C2_InitializedIffOpenedWithHeader ==
    /\ IsInitialized(topic)
          <=> (ret # "none" /\ ~HasError("open") /\ ~HasError("header"))
    /\ ret # "none" => (ret = "true" <=> IsInitialized(topic))

C2_Witness ==
    /\ Completed
    /\ HasError("row")
    /\ IsInitialized(topic)

LongRows(lines) == {i \in 2..Len(lines) : Len(lines[i]) > Len(lines[1])}

\* the number of data rows before the first over-long one
Accepted(lines) ==
    IF LongRows(lines) = {} THEN Len(lines) - 1
    ELSE (CHOOSE i \in LongRows(lines) : \A j \in LongRows(lines) : i <= j) - 2

PaddedRow(row, n) == [j \in 1..n |-> IF j <= Len(row) THEN row[j] ELSE ""]

Finalized(t) ==
    /\ t.len_seqid >= Len(hdr_seq)
    /\ t.len_stamp >= Len(hdr_stamp)
    /\ t.len_frameid >= Len(hdr_frid)
    /\ Len(t.FieldLabels) =
          Cardinality({i \in 1..Len(t.orig_field_labels) :
                          IsGenericLabel(t.orig_field_labels[i])})

\* C3: after a load that got past the header line, Messages holds, in file
\* order, exactly the records of the data rows before the first row with
\* more tokens than the header, each row right-padded with empty strings to
\* the header's column count; the first over-long row adds no record and
\* nothing after it is read; the topic is finalized and initialized.
C3_RecordsUpToFirstLongRow ==
    Completed =>
        /\ topic.Messages =
              [i \in 1..Accepted(ifs.lines) |->
                  MessageTokensToMessage(
                      PaddedRow(ifs.lines[i + 1], Len(ifs.lines[1])),
                      ifs.lines[1]).msg]
        /\ IsInitialized(topic)
        /\ Finalized(topic)

C3_Witness ==
    /\ Completed
    /\ Len(ifs.lines) = 3
    /\ Len(ifs.lines[2]) < Len(ifs.lines[1])
    /\ Len(ifs.lines[3]) > Len(ifs.lines[1])
    /\ Len(topic.Messages) = 1
    /\ IsInitialized(topic)

EmptyForQueries(t) ==
    /\ ~IsInitialized(t)
    /\ ~IsFaultTopic(t)
    /\ ~HasHeaderField(t)
    /\ t.Messages = <<>>
    /\ t.FieldLabels = <<>>
    /\ t.len_seqid = 0 /\ t.len_stamp = 0 /\ t.len_frameid = 0
    /\ t.len_fields = <<>>

\* the file of the most recent ReadFromFile could not be opened or had no
\* first line
CannotLoad == ret # "none" /\ (~ifs.is_open \/ ifs.lines = <<>>)

\* C4: when the file cannot be opened or has no first line, ReadFromFile
\* returns false at once (no row is read, no finalization, no fault
\* classification) and the topic answers every query as an empty topic,
\* whatever it held before the call.
C4_EarlyFailureLeavesEmpty ==
    /\ CannotLoad =>
          /\ ret = "false"
          /\ Len(cerr) = 1 /\ cerr[1].kind \in {"open", "header"}
    /\ (HasError("open") \/ HasError("header")) =>
          /\ pc = "idle"
          /\ ret = "false"
          /\ ifs.pos = 0
          /\ line_number = 0
          /\ topic.orig_field_labels = <<>>
          /\ EmptyForQueries(topic)

C4_Witness ==
    /\ Returned
    /\ HasError("header")
    /\ before.is_initialized
    /\ before.is_fault_topic
    /\ EmptyForQueries(topic)

\* C5: after every load that completes, IsFaultTopic() is true iff Name is
\* at least as long as the fault-topic marker and starts with it, whatever
\* fault flag an earlier load of the object left.
C5_FaultIffNameStartsWithMarker ==
    Completed => (IsFaultTopic(topic) <=> StartsWith(topic.Name, FaultTopicPrefix))

C5_Witness ==
    /\ Completed
    /\ before.is_initialized
    /\ IsFaultTopic(topic)
    /\ Len(topic.Name) > Len(FaultTopicPrefix)

\* C6: whatever the topic held before, after ReadFromFile(f) returns the
\* topic is exactly what loading f into a freshly constructed topic of the
\* same name gives, and the call returns what that load returns.
C6_ReloadEqualsFreshLoad ==
    Returned =>
        /\ topic = FreshLoad(topic_name, filename, ifs.lines)
        /\ topic.Name = topic_name
        /\ topic.FileName = filename
        /\ ret = "true" <=> IsInitialized(FreshLoad(topic_name, filename, ifs.lines))

C6_Witness ==
    /\ Completed
    /\ before.is_initialized
    /\ topic.Messages = <<>>
    /\ topic.FieldLabels # <<>>
    /\ topic.len_fields = <<>>

IsTripleMarker(l) ==
    l \in {CSVFieldsPrefix \o "header.seq", CSVFieldsPrefix \o "header.stamp",
           CSVFieldsPrefix \o "header.frame_id"}

KeptColumns(raw) ==
    {i \in 1..Len(raw) : raw[i] # TimeLabel /\ ~IsTripleMarker(raw[i])}

Normalized(l) ==
    IF StartsWith(l, CSVFieldsPrefix)
      THEN SubSeq(l, Len(CSVFieldsPrefix) + 1, Len(l))
      ELSE l

\* C9: the normalized labels are the raw labels without the timestamp label
\* and the triple markers, in order, duplicates kept, each with the
\* field-name prefix stripped when it starts with it; the triple-present flag
\* is true iff at least one triple marker occurs.
C9_HeaderNormalization ==
    Completed =>
        LET raw == topic.orig_field_labels
            kept == KeptColumns(raw)
        IN  /\ raw = ifs.lines[1]
            /\ Len(topic.FieldLabels) = Cardinality(kept)
            /\ Len(topic.FieldLabels) =
                  Len(raw) - Cardinality({i \in 1..Len(raw) :
                                raw[i] = TimeLabel \/ IsTripleMarker(raw[i])})
            /\ \A i \in kept :
                  topic.FieldLabels[Cardinality({k \in kept : k <= i})]
                      = Normalized(raw[i])
            /\ HasHeaderField(topic)
                  <=> \E i \in 1..Len(raw) : IsTripleMarker(raw[i])

C9_Witness ==
    /\ Completed
    /\ HasHeaderField(topic)
    /\ Cardinality({i \in 1..Len(topic.orig_field_labels) :
                       IsTripleMarker(topic.orig_field_labels[i])}) = 1
    /\ topic.FieldLabels = <<"y", "x">>

WidthsGrow(old, new) ==
    /\ new.len_seqid >= old.len_seqid
    /\ new.len_stamp >= old.len_stamp
    /\ new.len_frameid >= old.len_frameid
    /\ Len(new.len_fields) >= Len(old.len_fields)
    /\ \A i \in 1..Len(old.len_fields) : new.len_fields[i] >= old.len_fields[i]

LabelsFit(t) ==
    /\ t.len_seqid >= Len(hdr_seq)
    /\ t.len_stamp >= Len(hdr_stamp)
    /\ t.len_frameid >= Len(hdr_frid)
    /\ Len(t.len_fields) <= Len(t.FieldLabels)
    /\ \A i \in 1..Len(t.len_fields) : t.len_fields[i] >= Len(t.FieldLabels[i])

\* C10: during a load no tracked width decreases from one row to the next
\* nor at finalization, the per-field width list loses no entry, and after
\* finalization each scalar width is at least the length of its label and
\* each per-field width at least the length of its own field label.
C10_WidthsOnlyGrow ==
    [][ /\ pc \in {"rows", "finish"} => WidthsGrow(topic, topic')
        /\ pc = "finish" => LabelsFit(topic') ]_vars

\* two rows read, and the second was narrower than the first in some field
C10_Witness ==
    /\ pc = "rows"
    /\ line_number = 2
    /\ Len(topic.Messages) = 2
    /\ \E i \in 1..Len(topic.len_fields) :
          topic.len_fields[i] > Len(topic.Messages[2].FieldValues[i])

\* C7: PrintHeader returns the number of characters of the header line it
\* writes, and on a topic without records writes nothing and returns 0.
C7_PrintHeaderReturnsLineLength ==
    call.op = "PrintHeader" =>
        IF Len(topic.Messages) = 0
          THEN cout = <<>> /\ call.value = 0
          ELSE Len(cout) = 1 /\ call.value = Len(cout[1].text)

IsRecordLine(e) == e.kind = "record"
IsHeaderLine(e) == e.kind = "header"

\* C8: Print returns the number of record lines it writes, one for each
\* index i with n_start <= i < n_start + n_messages and i < record count (a
\* negative n_messages standing for all records from n_start on), in
\* increasing order after the header; with n_start < 0 it writes nothing and
\* returns 0.
C8_PrintReturnsLinesInRange ==
    call.op = "Print" =>
        IF call.n_start < 0
          THEN cout = <<>> /\ call.value = 0
          ELSE LET size == Len(topic.Messages)
                   wanted == {i \in 0..(size - 1) :
                                 /\ call.n_start <= i
                                 /\ (call.n_messages < 0
                                       \/ i - call.n_start < call.n_messages)}
                   records == SelectSeq(cout, IsRecordLine)
               IN  /\ call.value = Cardinality(wanted)
                   /\ Len(records) = call.value
                   /\ \A k \in 1..Len(records) :
                         records[k].index = call.n_start + k - 1
                   /\ Len(SelectSeq(cout, IsHeaderLine)) = IF size > 0 THEN 1 ELSE 0
                   /\ size > 0 => IsHeaderLine(cout[1])

=============================================================================
